---- MODULE Spec2Model ----
(***************************************************************************)
(* A model of advanced-vector/vector.h: RawMemory<T> (an owned, untyped    *)
(* allocation) and Vector<T> (a RawMemory plus the count of live elements).*)
(* The heap is a function from buffer addresses to the buffers' slots; a   *)
(* slot is uninitialized memory, a live element with a value, or a live    *)
(* element that has been moved from. Memory that no pointer of the program *)
(* reaches any more is kept as a count of slots and of live elements.      *)
(***************************************************************************)
EXTENDS Integers, FiniteSets, Sequences, TLC

\* ---- bounds of the model ----
MaxCap == 4      \* largest argument of Reserve / Resize / Vector(size)
HeapSlots == 6   \* element slots of the heap of a program with one Vector
PairSlots == 3   \* element slots of the heap of a program with two Vectors
AssignSlots == 4 \* element slots of the heap of the program of SpecAssign

\* ---- the element type T: two values, the code never looks at them ----
Default == 0     \* T(): a value-initialized element
Value == {Default, 1}
Raw == -1        \* a slot of uninitialized memory (content indeterminate)
Moved == -2      \* a live element left behind by std::move

\* ---- addresses: the allocator keeps one free list per request size, so
\* an address is the size class and the index of the block in its class ----
Addr(cls, k) == [cls |-> cls, k |-> k]
NullBuf == Addr(0, 0)     \* nullptr
Vecs == {"a", "b"}

VARIABLES
    objects,      \* the Vector objects the program declares
    slots,        \* the element slots the heap can hand out in total
    vec,          \* vec[v]: the Vector object v: alive, data_ (buffer_, capacity_), size_
    heap,         \* heap[b]: the slots of the allocated buffer at address b
    leaked,       \* allocated memory that no RawMemory points to any more
    relocByMove,  \* is_nothrow_move_constructible_v<T> || !is_copy_constructible_v<T>
    crashed,      \* the process was brought down by undefined behaviour
    last          \* the last call that had an effect

vars == <<objects, slots, vec, heap, leaked, relocByMove, crashed, last>>

\* ------------------------------------------------------------------------
\* RawMemory<T>
\* ------------------------------------------------------------------------

\* A default-constructed RawMemory: buffer_ = nullptr, capacity_ = 0.
RawMemoryEmpty == [buffer_ |-> NullBuf, capacity_ |-> 0]

\* The slots of the buffers at the addresses bs.
RECURSIVE SlotsOf(_)
SlotsOf(bs) ==
    IF bs = {} THEN 0
    ELSE LET b == CHOOSE x \in bs : TRUE
         IN  b.cls + SlotsOf(bs \ {b})

\* operator new can satisfy a request of n elements.
CanAllocate(hp, n) ==
    n = 0 \/ SlotsOf(DOMAIN hp) + leaked.storage + n <= slots

\* The address operator new returns for n elements: the first free block
\* of the size class.
NewAddress(hp, n) ==
    Addr(n, CHOOSE k \in 1..slots :
                /\ Addr(n, k) \notin DOMAIN hp
                /\ \A j \in 1..(k - 1) : Addr(n, j) \in DOMAIN hp)

\* RawMemory::Allocate(n): nullptr for n = 0, else n slots of raw memory.
Allocate(hp, n) ==
    IF n # 0
    THEN LET b == NewAddress(hp, n)
         IN  [heap |-> [c \in DOMAIN hp \cup {b} |->
                           IF c = b THEN [i \in 0..(n - 1) |-> Raw] ELSE hp[c]],
              buffer_ |-> b]
    ELSE [heap |-> hp, buffer_ |-> NullBuf]

\* RawMemory::Deallocate(buf): operator delete; a no-op on nullptr.
Deallocate(hp, buf) ==
    [c \in DOMAIN hp \ {buf} |-> hp[c]]

\* ------------------------------------------------------------------------
\* The bulk range utilities of <memory> and <algorithm>, on slot functions
\* ------------------------------------------------------------------------

\* std::destroy_n(first, n): the n slots from first become uninitialized.
destroy_n(m, first, n) ==
    [i \in DOMAIN m |-> IF first <= i /\ i < first + n THEN Raw ELSE m[i]]

\* std::uninitialized_value_construct_n(first, n): T() in each of the n slots.
uninitialized_value_construct_n(m, first, n) ==
    [i \in DOMAIN m |-> IF first <= i /\ i < first + n THEN Default ELSE m[i]]

\* std::uninitialized_copy_n(src + sfirst, n, dst + dfirst): the new dst.
uninitialized_copy_n(src, sfirst, n, dst, dfirst) ==
    [i \in DOMAIN dst |->
        IF dfirst <= i /\ i < dfirst + n THEN src[sfirst + (i - dfirst)] ELSE dst[i]]

\* std::uninitialized_move_n(src + sfirst, n, dst + dfirst): both buffers.
uninitialized_move_n(src, sfirst, n, dst, dfirst) ==
    [src |-> [i \in DOMAIN src |->
                 IF sfirst <= i /\ i < sfirst + n THEN Moved ELSE src[i]],
     dst |-> [i \in DOMAIN dst |->
                 IF dfirst <= i /\ i < dfirst + n
                 THEN src[sfirst + (i - dfirst)] ELSE dst[i]]]

\* std::uninitialized_copy_n (and uninitialized_move_n over const T, which
\* copies) when the copy of element j throws: the j copies made are
\* destroyed before the exception leaves; the source is as it was.
uninitialized_copy_n_throws(src, sfirst, j, dst, dfirst) ==
    destroy_n(uninitialized_copy_n(src, sfirst, j, dst, dfirst), dfirst, j)

\* std::copy_n(src, n, dst) when the copy assignment of element j throws:
\* the j elements before it have been assigned.
copy_n_throws(src, j, dst) ==
    [i \in DOMAIN dst |-> IF i < j THEN src[i] ELSE dst[i]]

\* std::copy_n(src, n, dst): copy-assigns the first n elements.
copy_n(src, n, dst) ==
    [i \in DOMAIN dst |-> IF i < n THEN src[i] ELSE dst[i]]

\* std::move(first, last, d_first) within one buffer, front to back.
RECURSIVE std_move(_, _, _, _)
std_move(m, first, lst, d_first) ==
    IF first >= lst THEN m
    ELSE std_move([[m EXCEPT ![d_first] = m[first]] EXCEPT ![first] = Moved],
                  first + 1, lst, d_first + 1)

\* std::move_backward(first, last, d_last) within one buffer, back to front.
RECURSIVE move_backward(_, _, _, _)
move_backward(m, first, lst, d_last) ==
    IF first >= lst THEN m
    ELSE move_backward([[m EXCEPT ![d_last - 1] = m[lst - 1]] EXCEPT ![lst - 1] = Moved],
                       first, lst - 1, d_last - 1)

\* ------------------------------------------------------------------------
\* Vector<T>: each operation maps a program state S = [vec, heap] to the
\* state it leaves
\* ------------------------------------------------------------------------

Capacity(S, v) == S.vec[v].data_.capacity_
Size(S, v) == S.vec[v].size_
Buffer(S, v) == S.vec[v].data_.buffer_

\* The slots of v's buffer (the empty function for a null buffer).
Mem(S, v) ==
    IF Buffer(S, v) \in DOMAIN S.heap THEN S.heap[Buffer(S, v)] ELSE [i \in {} |-> Raw]

SetMem(hp, b, m) == [c \in DOMAIN hp |-> IF c = b THEN m ELSE hp[c]]

\* Vector(): no buffer, no elements.
VectorDefault == [alive |-> TRUE, data_ |-> RawMemoryEmpty, size_ |-> 0]

\* A Vector whose destructor has run.
VectorDead == [alive |-> FALSE, data_ |-> RawMemoryEmpty, size_ |-> 0]

\* Vector(size): data_(size), size_(size), then value-construct every slot.
VectorSized(S, v, size) ==
    LET a == Allocate(S.heap, size)
        h == IF size = 0 THEN a.heap
             ELSE SetMem(a.heap, a.buffer_,
                         uninitialized_value_construct_n(a.heap[a.buffer_], 0, size))
    IN  [vec |-> [S.vec EXCEPT ![v] =
                     [alive |-> TRUE,
                      data_ |-> [buffer_ |-> a.buffer_, capacity_ |-> size],
                      size_ |-> size]],
         heap |-> h]

\* ~Vector(): destroy the size_ elements, then ~RawMemory() releases the buffer.
VectorDestroy(S, v) ==
    LET b  == Buffer(S, v)
        h1 == IF Size(S, v) # 0
              THEN SetMem(S.heap, b, destroy_n(Mem(S, v), 0, Size(S, v)))
              ELSE S.heap
    IN  [vec |-> [S.vec EXCEPT ![v] = VectorDead],
         heap |-> Deallocate(h1, b)]

\* UninitializedData(from, to): from is const, so std::move(*it) is a
\* const T&& and uninitialized_move_n selects T(const T&) as well: both
\* branches leave the source elements as they are.
UninitializedData(from, size, to) ==
    IF relocByMove
    THEN uninitialized_move_n(from, 0, size, to, 0).dst
    ELSE uninitialized_copy_n(from, 0, size, to, 0)

\* Mutant of VectorCopy: a member-wise copy, sharing other's buffer.
VectorCopyShallow(S, v, other) ==
    [vec |-> [S.vec EXCEPT ![v] = S.vec[other]], heap |-> S.heap]

\* Vector(const Vector& other): data_(other.size_), size_(other.size_).
VectorCopy(S, v, other) ==
    LET n == Size(S, other)
        a == Allocate(S.heap, n)
        h == IF n = 0 THEN a.heap
             ELSE SetMem(a.heap, a.buffer_,
                         UninitializedData(Mem(S, other), n, a.heap[a.buffer_]))
    IN  [vec |-> [S.vec EXCEPT ![v] =
                     [alive |-> TRUE,
                      data_ |-> [buffer_ |-> a.buffer_, capacity_ |-> n],
                      size_ |-> n]],
         heap |-> h]

\* Vector(const Vector& other) when the constructor of data_ throws
\* std::bad_alloc: nothing has been built, the object does not exist.
VectorBadAlloc(S, v) == S

\* Vector(const Vector& other) when the copy of element j throws in
\* UninitializedData: the copies made are destroyed, and unwinding the
\* constructor runs ~RawMemory() on data_; the object does not exist.
VectorCopyThrows(S, v, other, j) ==
    LET a == Allocate(S.heap, Size(S, other))
        m == uninitialized_copy_n_throws(Mem(S, other), 0, j, a.heap[a.buffer_], 0)
    IN  [vec |-> S.vec,
         heap |-> Deallocate(SetMem(a.heap, a.buffer_, m), a.buffer_)]

\* Vector(Vector&& other): takes other's data_ and size_, leaving it empty.
VectorMove(S, v, other) ==
    [vec |-> [S.vec EXCEPT ![v] = [alive |-> TRUE,
                                   data_ |-> S.vec[other].data_,
                                   size_ |-> S.vec[other].size_],
                           ![other] = [alive |-> TRUE,
                                       data_ |-> RawMemoryEmpty,
                                       size_ |-> 0]],
     heap |-> S.heap]

\* Swap(other): std::swap of data_ and of size_.
VectorSwap(S, v, other) ==
    [vec |-> [S.vec EXCEPT ![v] = S.vec[other], ![other] = S.vec[v]],
     heap |-> S.heap]

\* UninitializedNewData(new_data): relocate [0, size_) of data_ into new_data.
UninitializedNewData(old, size, new) ==
    IF relocByMove
    THEN uninitialized_move_n(old, 0, size, new, 0)
    ELSE [src |-> old, dst |-> uninitialized_copy_n(old, 0, size, new, 0)]

\* Mutant of Reserve: the request is rounded up to an even capacity.
ReserveRounded(S, v, new_capacity) ==
    IF new_capacity <= Capacity(S, v) THEN S
    ELSE LET old == Buffer(S, v)
             cap == new_capacity + (new_capacity % 2)
             a   == Allocate(S.heap, cap)
             r   == UninitializedNewData(Mem(S, v), Size(S, v), a.heap[a.buffer_])
             h1  == IF old = NullBuf THEN a.heap
                    ELSE SetMem(a.heap, old, destroy_n(r.src, 0, Size(S, v)))
             h2  == SetMem(h1, a.buffer_, r.dst)
         IN  [vec |-> [S.vec EXCEPT ![v].data_ =
                          [buffer_ |-> a.buffer_, capacity_ |-> cap]],
              heap |-> Deallocate(h2, old)]

\* Reserve(new_capacity).
Reserve(S, v, new_capacity) ==
    IF new_capacity <= Capacity(S, v) THEN S
    ELSE LET old == Buffer(S, v)
             a   == Allocate(S.heap, new_capacity)
             r   == UninitializedNewData(Mem(S, v), Size(S, v), a.heap[a.buffer_])
             \* std::destroy_n(data_.GetAddress(), size_)
             h1  == IF old = NullBuf THEN a.heap
                    ELSE SetMem(a.heap, old, destroy_n(r.src, 0, Size(S, v)))
             h2  == SetMem(h1, a.buffer_, r.dst)
         IN  \* data_.Swap(new_data); ~RawMemory() of new_data frees the old buffer
             [vec |-> [S.vec EXCEPT ![v].data_ =
                          [buffer_ |-> a.buffer_, capacity_ |-> new_capacity]],
              heap |-> Deallocate(h2, old)]

\* Reserve(new_capacity) when the constructor of new_data throws
\* std::bad_alloc: no statement before it touches the Vector.
ReserveBadAlloc(S, v, new_capacity) == S

\* Mutant of ReserveThrows: the elements are moved into new_data, and
\* those moved before the throw stay moved from.
ReserveThrowsMoved(S, v, new_capacity, j) ==
    [vec |-> S.vec,
     heap |-> SetMem(S.heap, Buffer(S, v),
                     uninitialized_move_n(Mem(S, v), 0, j, Mem(S, v), 0).src)]

\* Reserve(new_capacity) relocating by copy when the copy of element j
\* throws in UninitializedNewData: uninitialized_copy_n destroys the copies
\* made, unwinding runs ~RawMemory() on new_data, and neither destroy_n
\* nor Swap is reached.
ReserveThrows(S, v, new_capacity, j) ==
    LET a == Allocate(S.heap, new_capacity)
        m == uninitialized_copy_n_throws(Mem(S, v), 0, j, a.heap[a.buffer_], 0)
    IN  [vec |-> S.vec,
         heap |-> Deallocate(SetMem(a.heap, a.buffer_, m), a.buffer_)]

\* Resize(new_size) above the capacity when Reserve throws: neither the
\* value construction nor size_ = new_size is reached.
ResizeBadAlloc(S, v, new_size) == ReserveBadAlloc(S, v, new_size)
ResizeThrows(S, v, new_size, j) == ReserveThrows(S, v, new_size, j)

\* Mutant of Resize: size_ is set without reserving room for it.
ResizeNoReserve(S, v, new_size) ==
    [vec |-> [S.vec EXCEPT ![v].size_ = new_size],
     heap |-> IF Buffer(S, v) = NullBuf THEN S.heap
              ELSE SetMem(S.heap, Buffer(S, v),
                          destroy_n(Mem(S, v), new_size, Size(S, v) - new_size))]

\* Mutant of Resize: shrinking drops size_ and destroys nothing.
ResizeNoDestroy(S, v, new_size) ==
    IF new_size > Capacity(S, v)
    THEN LET R == Reserve(S, v, new_size)
         IN  [vec |-> [R.vec EXCEPT ![v].size_ = new_size],
              heap |-> SetMem(R.heap, Buffer(R, v),
                          uninitialized_value_construct_n(Mem(R, v), 0,
                                                          new_size - Size(S, v)))]
    ELSE [vec |-> [S.vec EXCEPT ![v].size_ = new_size], heap |-> S.heap]

\* Resize(new_size). In the else branch with new_size > size_ the count
\* size_ - new_size wraps around; this is the outcome in which destroy_n
\* over that count destroys nothing (ResizeOp adds the other outcome).
Resize(S, v, new_size) ==
    IF new_size > Capacity(S, v)
    THEN LET R == Reserve(S, v, new_size)
             b == Buffer(R, v)
         IN  [vec |-> [R.vec EXCEPT ![v].size_ = new_size],
              heap |-> SetMem(R.heap, b,
                          uninitialized_value_construct_n(Mem(R, v), 0,
                                                          new_size - Size(S, v)))]
    ELSE [vec |-> [S.vec EXCEPT ![v].size_ = new_size],
          heap |-> IF Buffer(S, v) = NullBuf THEN S.heap
                   ELSE SetMem(S.heap, Buffer(S, v),
                               destroy_n(Mem(S, v), new_size, Size(S, v) - new_size))]

\* Mutant of PopBack: the first element is destroyed instead of the last.
PopBackFront(S, v) ==
    [vec |-> [S.vec EXCEPT ![v].size_ = Size(S, v) - 1],
     heap |-> SetMem(S.heap, Buffer(S, v), destroy_n(Mem(S, v), 0, 1))]

\* PopBack(): destroy the last element, --size_.
PopBack(S, v) ==
    [vec |-> [S.vec EXCEPT ![v].size_ = Size(S, v) - 1],
     heap |-> SetMem(S.heap, Buffer(S, v), destroy_n(Mem(S, v), Size(S, v) - 1, 1))]

\* Mutant of InsertWithoutAlloc: the elements from pos_idx on are not
\* shifted; the last one is duplicated and slot pos_idx overwritten.
InsertWithoutAllocNoShift(m, size, pos_idx, value) ==
    IF size = pos_idx
    THEN [m EXCEPT ![pos_idx] = value]
    ELSE [[m EXCEPT ![size] = m[size - 1]] EXCEPT ![pos_idx] = value]

\* InsertWithoutAlloc(pos_idx, args...): the new slots of data_.
InsertWithoutAlloc(m, size, pos_idx, value) ==
    IF size = pos_idx
    THEN [m EXCEPT ![pos_idx] = value]
    ELSE LET tmp == value
             m1  == [[m EXCEPT ![size] = m[size - 1]] EXCEPT ![size - 1] = Moved]
             m2  == move_backward(m1, pos_idx, size - 1, size)
         IN  [m2 EXCEPT ![pos_idx] = tmp]

\* Mutant of GrownCapacity: room for one more element only.
GrownCapacityByOne(size) == size + 1

\* The capacity InsertWithAlloc asks for.
GrownCapacity(size) == IF size = 0 THEN 1 ELSE 2 * size

\* InsertWithAlloc(pos, pos_idx, args...), no constructor throwing.
InsertWithAlloc(S, v, pos_idx, value) ==
    LET size       == Size(S, v)
        old        == Buffer(S, v)
        count_prev == pos_idx
        count_next == size - pos_idx
        a          == Allocate(S.heap, GrownCapacity(size))
        n0         == [a.heap[a.buffer_] EXCEPT ![pos_idx] = value]
        r1         == IF relocByMove
                      THEN uninitialized_move_n(Mem(S, v), 0, count_prev, n0, 0)
                      ELSE [src |-> Mem(S, v),
                            dst |-> uninitialized_copy_n(Mem(S, v), 0, count_prev, n0, 0)]
        r2         == IF relocByMove
                      THEN uninitialized_move_n(r1.src, count_prev, count_next,
                                                r1.dst, count_prev + 1)
                      ELSE [src |-> r1.src,
                            dst |-> uninitialized_copy_n(r1.src, count_prev, count_next,
                                                         r1.dst, count_prev + 1)]
        h1         == IF old = NullBuf THEN a.heap
                      ELSE SetMem(a.heap, old, destroy_n(r2.src, 0, size))
        h2         == SetMem(h1, a.buffer_, r2.dst)
    IN  [vec |-> [S.vec EXCEPT ![v].data_ =
                     [buffer_ |-> a.buffer_, capacity_ |-> GrownCapacity(size)]],
         heap |-> Deallocate(h2, old)]

\* Mutant of EmplaceBadAlloc: size_ is counted up before the buffer grows.
EmplaceBadAllocCounted(S, v, pos_idx, value) ==
    [vec |-> [S.vec EXCEPT ![v].size_ = Size(S, v) + 1], heap |-> S.heap]

\* InsertWithAlloc when the constructor of new_data throws std::bad_alloc;
\* Emplace does not reach ++size_.
EmplaceBadAlloc(S, v, pos_idx, value) == S

\* A copy count that stands for "no copy throws".
NoThrow == HeapSlots + 1

\* InsertWithAlloc relocating by copy when the copy of element j1 of the
\* segment before pos throws, or that of element j2 of the segment after
\* it, or both (NoThrow: the segment is copied whole). uninitialized_copy_n
\* destroys the copies it made of the segment; the handler destroys the
\* segment in data_ and does not rethrow, so the code goes on: destroy_n
\* over all of data_ (again over the segment the handler destroyed; this
\* is the outcome in which that does nothing more), Swap, and in Emplace
\* ++size_ and the return of begin() + pos_idx.
InsertWithAllocSwallows(S, v, pos_idx, value, j1, j2) ==
    LET size       == Size(S, v)
        old        == Buffer(S, v)
        count_prev == pos_idx
        count_next == size - pos_idx
        a          == Allocate(S.heap, GrownCapacity(size))
        n0         == [a.heap[a.buffer_] EXCEPT ![pos_idx] = value]
        r1         == IF j1 = NoThrow
                      THEN [src |-> Mem(S, v),
                            dst |-> uninitialized_copy_n(Mem(S, v), 0, count_prev, n0, 0)]
                      ELSE [src |-> destroy_n(Mem(S, v), 0, count_prev),
                            dst |-> uninitialized_copy_n_throws(Mem(S, v), 0, j1, n0, 0)]
        r2         == IF j2 = NoThrow
                      THEN [src |-> r1.src,
                            dst |-> uninitialized_copy_n(r1.src, count_prev, count_next,
                                                         r1.dst, count_prev + 1)]
                      ELSE [src |-> destroy_n(r1.src, count_prev, count_next),
                            dst |-> uninitialized_copy_n_throws(r1.src, count_prev, j2,
                                                                r1.dst, count_prev + 1)]
        h1         == SetMem(a.heap, old, destroy_n(r2.src, 0, size))
        h2         == SetMem(h1, a.buffer_, r2.dst)
    IN  [vec |-> [S.vec EXCEPT ![v].data_ =
                     [buffer_ |-> a.buffer_, capacity_ |-> GrownCapacity(size)],
                               ![v].size_ = size + 1],
         heap |-> Deallocate(h2, old)]

\* Emplace(pos, args...): the state left, ++size_ included.
Emplace(S, v, pos_idx, value) ==
    LET R == IF Size(S, v) = Capacity(S, v)
             THEN InsertWithAlloc(S, v, pos_idx, value)
             ELSE [vec |-> S.vec,
                   heap |-> SetMem(S.heap, Buffer(S, v),
                               InsertWithoutAlloc(Mem(S, v), Size(S, v), pos_idx, value))]
    IN  [vec |-> [R.vec EXCEPT ![v].size_ = Size(S, v) + 1], heap |-> R.heap]

\* Mutant of InsertWithoutAllocRef: no temporary; the elements are shifted
\* first and the new one is then constructed from the reference.
InsertWithoutAllocRefLate(m, size, pos_idx, index) ==
    IF size = pos_idx
    THEN [m EXCEPT ![pos_idx] = m[index]]
    ELSE LET m1 == [[m EXCEPT ![size] = m[size - 1]] EXCEPT ![size - 1] = Moved]
             m2 == move_backward(m1, pos_idx, size - 1, size)
         IN  [m2 EXCEPT ![pos_idx] = m2[index]]

\* InsertWithoutAlloc(pos_idx, value) with value a reference to
\* data_[index]: the reference is read by the placement new at the end,
\* or by the construction of tmp before any element is shifted.
InsertWithoutAllocRef(m, size, pos_idx, index) ==
    IF size = pos_idx
    THEN [m EXCEPT ![pos_idx] = m[index]]
    ELSE LET tmp == m[index]
             m1  == [[m EXCEPT ![size] = m[size - 1]] EXCEPT ![size - 1] = Moved]
             m2  == move_backward(m1, pos_idx, size - 1, size)
         IN  [m2 EXCEPT ![pos_idx] = tmp]

\* InsertWithAlloc(pos, pos_idx, value) with value a reference to
\* data_[index]: the new element is constructed from it in new_data
\* before any element of data_ is relocated or destroyed.
InsertWithAllocRef(S, v, pos_idx, index) ==
    InsertWithAlloc(S, v, pos_idx, Mem(S, v)[index])

\* Emplace(pos, data_[index]): the state left, ++size_ included.
EmplaceRef(S, v, pos_idx, index) ==
    LET R == IF Size(S, v) = Capacity(S, v)
             THEN InsertWithAllocRef(S, v, pos_idx, index)
             ELSE [vec |-> S.vec,
                   heap |-> SetMem(S.heap, Buffer(S, v),
                               InsertWithoutAllocRef(Mem(S, v), Size(S, v), pos_idx, index))]
    IN  [vec |-> [R.vec EXCEPT ![v].size_ = Size(S, v) + 1], heap |-> R.heap]

\* Mutant of Erase: the last element is destroyed whatever the position.
EraseNoShift(S, v, pos_idx) ==
    LET size == Size(S, v)
    IN  [vec |-> [S.vec EXCEPT ![v].size_ = size - 1],
         heap |-> SetMem(S.heap, Buffer(S, v), destroy_n(Mem(S, v), size - 1, 1))]

\* Erase(pos): move [pos + 1, end) one slot left, destroy the last, --size_.
Erase(S, v, pos_idx) ==
    LET size == Size(S, v)
        m1   == std_move(Mem(S, v), pos_idx + 1, size, pos_idx)
        m2   == destroy_n(m1, size - 1, 1)
    IN  [vec |-> [S.vec EXCEPT ![v].size_ = size - 1],
         heap |-> SetMem(S.heap, Buffer(S, v), m2)]

\* Mutant of CopyAssign: copy-and-swap whatever the capacity held.
CopyAssignBySwap(S, v, rhs) ==
    LET n  == Size(S, rhs)
        a  == Allocate(S.heap, n)
        h1 == IF n = 0 THEN a.heap
              ELSE SetMem(a.heap, a.buffer_,
                          UninitializedData(Mem(S, rhs), n, a.heap[a.buffer_]))
        b  == Buffer(S, v)
        h2 == IF Size(S, v) # 0
              THEN SetMem(h1, b, destroy_n(Mem(S, v), 0, Size(S, v)))
              ELSE h1
    IN  [vec |-> [S.vec EXCEPT ![v].data_ = [buffer_ |-> a.buffer_, capacity_ |-> n],
                               ![v].size_ = n],
         heap |-> Deallocate(h2, b)]

\* Mutant of CopyAssign: with room for rhs the elements held are kept and
\* only the tail is destroyed or constructed.
CopyAssignTailOnly(S, v, rhs) ==
    IF Size(S, rhs) > Capacity(S, v)
    THEN LET n  == Size(S, rhs)
             a  == Allocate(S.heap, n)
             h1 == SetMem(a.heap, a.buffer_,
                          UninitializedData(Mem(S, rhs), n, a.heap[a.buffer_]))
             b  == Buffer(S, v)
             h2 == IF Size(S, v) # 0
                   THEN SetMem(h1, b, destroy_n(Mem(S, v), 0, Size(S, v)))
                   ELSE h1
         IN  [vec |-> [S.vec EXCEPT ![v].data_ = [buffer_ |-> a.buffer_, capacity_ |-> n],
                                    ![v].size_ = n],
              heap |-> Deallocate(h2, b)]
    ELSE LET rsize == Size(S, rhs)
             size  == Size(S, v)
             count == IF rsize < size THEN size - rsize ELSE rsize - size
             m     == IF rsize < size
                      THEN destroy_n(Mem(S, v), rsize, count)
                      ELSE uninitialized_copy_n(Mem(S, rhs), size, count, Mem(S, v), size)
         IN  [vec |-> [S.vec EXCEPT ![v].size_ = rsize],
              heap |-> IF Buffer(S, v) = NullBuf THEN S.heap
                       ELSE SetMem(S.heap, Buffer(S, v), m)]

\* operator=(const Vector& rhs), this != &rhs.
CopyAssign(S, v, rhs) ==
    IF Size(S, rhs) > Capacity(S, v)
    THEN \* Vector rhs_copy(rhs); Swap(rhs_copy); ~Vector() of rhs_copy
         LET n  == Size(S, rhs)
             a  == Allocate(S.heap, n)
             h1 == SetMem(a.heap, a.buffer_,
                          UninitializedData(Mem(S, rhs), n, a.heap[a.buffer_]))
             b  == Buffer(S, v)
             h2 == IF Size(S, v) # 0
                   THEN SetMem(h1, b, destroy_n(Mem(S, v), 0, Size(S, v)))
                   ELSE h1
         IN  [vec |-> [S.vec EXCEPT ![v].data_ = [buffer_ |-> a.buffer_, capacity_ |-> n],
                                    ![v].size_ = n],
              heap |-> Deallocate(h2, b)]
    ELSE LET rsize == Size(S, rhs)
             size  == Size(S, v)
             count == IF rsize < size THEN size - rsize ELSE rsize - size
             m     == IF rsize < size
                      THEN destroy_n(copy_n(Mem(S, rhs), rsize, Mem(S, v)), rsize, count)
                      ELSE uninitialized_copy_n(Mem(S, rhs), size, count,
                                                copy_n(Mem(S, rhs), size, Mem(S, v)), size)
         IN  [vec |-> [S.vec EXCEPT ![v].size_ = rsize],
              heap |-> IF Buffer(S, v) = NullBuf THEN S.heap
                       ELSE SetMem(S.heap, Buffer(S, v), m)]

\* operator=(const Vector& rhs) when Vector rhs_copy(rhs) throws
\* std::bad_alloc: Swap is not reached.
CopyAssignBadAlloc(S, v, rhs) == VectorBadAlloc(S, v)

\* operator=(const Vector& rhs), this != &rhs, when the copy of element j
\* of rhs throws: in the constructor of rhs_copy, or in place in copy_n
\* over the elements held or in uninitialized_copy_n over the tail;
\* size_ = rhs.size_ is not reached.
CopyAssignThrows(S, v, rhs, j) ==
    IF Size(S, rhs) > Capacity(S, v)
    THEN VectorCopyThrows(S, v, rhs, j)
    ELSE LET rsize == Size(S, rhs)
             size  == Size(S, v)
             m     == IF rsize < size \/ j < size
                      THEN copy_n_throws(Mem(S, rhs), j, Mem(S, v))
                      ELSE uninitialized_copy_n_throws(Mem(S, rhs), size, j - size,
                               copy_n(Mem(S, rhs), size, Mem(S, v)), size)
         IN  [vec |-> S.vec,
              heap |-> SetMem(S.heap, Buffer(S, v), m)]

\* Mutant of MoveAssign: the two Vectors trade data_ and size_.
MoveAssignBySwap(S, v, rhs) ==
    [vec |-> [S.vec EXCEPT ![v].data_ = S.vec[rhs].data_,
                           ![v].size_ = S.vec[rhs].size_,
                           ![rhs].data_ = S.vec[v].data_,
                           ![rhs].size_ = S.vec[v].size_],
     heap |-> S.heap]

\* operator=(Vector&& rhs), this != &rhs: RawMemory::operator=(RawMemory&&)
\* overwrites buffer_ and capacity_ without releasing the buffer held, and
\* size_ is overwritten without destroying the elements held: the buffer
\* stays allocated with no pointer to it left.
MoveAssign(S, v, rhs) ==
    [vec |-> [S.vec EXCEPT ![v].data_ = S.vec[rhs].data_,
                           ![v].size_ = S.vec[rhs].size_,
                           ![rhs].data_ = RawMemoryEmpty,
                           ![rhs].size_ = 0],
     heap |-> [c \in DOMAIN S.heap \ {Buffer(S, v)} |-> S.heap[c]]]

\* What the buffer v holds adds to the unreachable memory once the last
\* pointer to it is overwritten: its slots, and the elements alive in it.
Orphaned(S, v) ==
    [storage  |-> leaked.storage + Capacity(S, v),
     elements |-> leaked.elements
                     + Cardinality({i \in DOMAIN Mem(S, v) : Mem(S, v)[i] # Raw})]

\* T& operator[](index) written through: data_[index] = value.
WriteAt(S, v, index, value) ==
    [vec |-> S.vec,
     heap |-> SetMem(S.heap, Buffer(S, v), [Mem(S, v) EXCEPT ![index] = value])]

\* ------------------------------------------------------------------------
\* The program: calls on the two Vector objects
\* ------------------------------------------------------------------------

St == [vec |-> vec, heap |-> heap]

\* A heap with nothing allocated.
NoHeap == [c \in {} |-> [i \in {} |-> Raw]]

\* An iterator: a buffer address and an element offset.
Iter(b, i) == [buf |-> b, idx |-> i]
NoIter == Iter(NullBuf, 0)

\* A call: its operation, the iterator it returned, whether it allocated,
\* and what it threw instead of returning.
Call(op, ret) ==
    [op |-> op, ret |-> ret, alloc |-> FALSE, thrown |-> "none"]

\* A call of op left by the exception what: "bad_alloc" from operator new,
\* "T" from a copy of an element.
Threw(op, what) ==
    [op |-> op, ret |-> NoIter, alloc |-> FALSE, thrown |-> what]

\* No memory is out of reach.
NoLeak == [storage |-> 0, elements |-> 0]

\* The call leaves state R; a call with an effect is recorded as c.
Returns(R, c) ==
    /\ vec' = R.vec
    /\ heap' = R.heap
    /\ last' = IF R = St THEN last
               ELSE [c EXCEPT !.alloc = (DOMAIN R.heap \ DOMAIN heap # {})]
    /\ UNCHANGED <<objects, slots, relocByMove, crashed>>

\* The call leaves state R and overwrites no owning pointer.
Becomes(R, c) ==
    /\ Returns(R, c)
    /\ leaked' = leaked

\* The call is left by an exception in state R; c records it.
Throws(R, c) ==
    /\ vec' = R.vec
    /\ heap' = R.heap
    /\ last' = c
    /\ leaked' = leaked
    /\ UNCHANGED <<objects, slots, relocByMove, crashed>>

\* Undefined behaviour brings the process down during the call c.
Crashes(c) ==
    /\ crashed' = TRUE
    /\ vec' = [x \in Vecs |-> VectorDead]
    /\ heap' = NoHeap
    /\ leaked' = NoLeak
    /\ last' = c
    /\ UNCHANGED <<objects, slots, relocByMove>>

Alive(v) == ~crashed /\ vec[v].alive

\* A program with one Vector on the larger heap, or with two on the smaller.
Init ==
    /\ \/ objects = {"a"} /\ slots = HeapSlots
       \/ objects = Vecs /\ slots = PairSlots
    /\ vec = [v \in Vecs |-> IF v \in objects THEN VectorDefault ELSE VectorDead]
    /\ heap = NoHeap
    /\ leaked = NoLeak
    /\ relocByMove \in BOOLEAN
    /\ crashed = FALSE
    /\ last = Call("Vector", NoIter)

DefaultCtor(v) ==
    /\ ~crashed /\ v \in objects /\ ~vec[v].alive
    /\ Becomes([vec |-> [vec EXCEPT ![v] = VectorDefault], heap |-> heap],
               Call("Vector", NoIter))

SizedCtor(v, size) ==
    /\ ~crashed /\ v \in objects /\ ~vec[v].alive
    /\ CanAllocate(heap, size)
    /\ Becomes(VectorSized(St, v, size), Call("VectorSized", NoIter))

CopyCtor(v, other) ==
    /\ ~crashed /\ v \in objects /\ ~vec[v].alive
    /\ Alive(other)
    /\ CanAllocate(heap, vec[other].size_)
    /\ Becomes(VectorCopy(St, v, other), Call("VectorCopy", NoIter))

MoveCtor(v, other) ==
    /\ ~crashed /\ v \in objects /\ ~vec[v].alive
    /\ Alive(other)
    /\ Becomes(VectorMove(St, v, other), Call("VectorMove", NoIter))

Dtor(v) ==
    /\ Alive(v)
    /\ Becomes(VectorDestroy(St, v), Call("~Vector", NoIter))

CopyAssignOp(v, rhs) ==
    /\ Alive(v) /\ Alive(rhs)
    /\ (v # rhs /\ vec[rhs].size_ > vec[v].data_.capacity_)
          => CanAllocate(heap, vec[rhs].size_)
    /\ Becomes(IF v # rhs THEN CopyAssign(St, v, rhs) ELSE St,
               Call("CopyAssign", NoIter))

MoveAssignOp(v, rhs) ==
    /\ Alive(v) /\ Alive(rhs)
    /\ Returns(IF v # rhs THEN MoveAssign(St, v, rhs) ELSE St,
               Call("MoveAssign", NoIter))
    /\ leaked' = IF v # rhs THEN Orphaned(St, v) ELSE leaked

SwapOp(v, other) ==
    /\ Alive(v) /\ Alive(other)
    /\ Becomes(VectorSwap(St, v, other), Call("Swap", NoIter))

ReserveOp(v, new_capacity) ==
    /\ Alive(v)
    /\ new_capacity > vec[v].data_.capacity_ => CanAllocate(heap, new_capacity)
    /\ Becomes(Reserve(St, v, new_capacity),
               Call("Reserve", NoIter))

\* Resize(new_size); with size_ < new_size <= capacity the count handed to
\* destroy_n is size_ - new_size wrapped around: either nothing is
\* destroyed (a trivial destructor) or the process dies destroying memory
\* it does not own.
ResizeOp(v, new_size) ==
    /\ Alive(v)
    /\ new_size > vec[v].data_.capacity_ => CanAllocate(heap, new_size)
    /\ \/ Becomes(Resize(St, v, new_size), Call("Resize", NoIter))
       \/ /\ vec[v].size_ < new_size
          /\ new_size <= vec[v].data_.capacity_
          /\ crashed' = TRUE
          /\ vec' = [x \in Vecs |-> VectorDead]
          /\ heap' = NoHeap
          /\ leaked' = NoLeak
          /\ last' = Call("Resize", NoIter)
          /\ UNCHANGED <<objects, slots, relocByMove>>

\* PushBack(const T&), PushBack(T&&) and EmplaceBack(args...) are all
\* Emplace(end(), ...), Insert(pos, ...) is Emplace(pos, ...): the call
\* recorded is the Emplace call. size_ == Capacity() makes Emplace allocate.
CanEmplace(v) ==
    vec[v].size_ = vec[v].data_.capacity_
        => CanAllocate(heap, GrownCapacity(vec[v].size_))

\* The iterator Emplace returns: begin() + pos_idx, after the call.
EmplaceCall(R, v, pos_idx) ==
    Call("Emplace", Iter(Buffer(R, v), pos_idx))

PushBackOp(v, value) ==
    /\ Alive(v) /\ CanEmplace(v)
    /\ LET R == Emplace(St, v, vec[v].size_, value)
       IN  Becomes(R, EmplaceCall(R, v, vec[v].size_))

InsertOp(v, pos_idx, value) ==
    /\ Alive(v) /\ CanEmplace(v)
    /\ pos_idx <= vec[v].size_
    /\ LET R == Emplace(St, v, pos_idx, value)
       IN  Becomes(R, EmplaceCall(R, v, pos_idx))

\* Insert(pos, v[index]) or PushBack(v[index]): the value is a reference to
\* an element of the Vector itself.
InsertRefOp(v, pos_idx, index) ==
    /\ Alive(v) /\ CanEmplace(v)
    /\ pos_idx <= vec[v].size_
    /\ index < vec[v].size_
    /\ LET R == EmplaceRef(St, v, pos_idx, index)
       IN  Becomes(R, Call("EmplaceRef", Iter(Buffer(R, v), pos_idx)))

PopBackOp(v) ==
    /\ Alive(v)
    /\ vec[v].size_ > 0
    /\ Becomes(PopBack(St, v), Call("PopBack", NoIter))

EraseOp(v, pos_idx) ==
    /\ Alive(v)
    /\ pos_idx < vec[v].size_
    /\ LET R == Erase(St, v, pos_idx)
       IN  Becomes(R, Call("Erase", Iter(Buffer(R, v), pos_idx)))

WriteOp(v, index, value) ==
    /\ Alive(v)
    /\ index < vec[v].size_
    /\ Becomes(WriteAt(St, v, index, value), Call("Write", NoIter))

\* ---- calls that fail: operator new throws when the heap is exhausted,
\* and the copy constructor and copy assignment of T may throw ----

CopyCtorBadAllocOp(v, other) ==
    /\ ~crashed /\ v \in objects /\ ~vec[v].alive
    /\ Alive(other)
    /\ ~CanAllocate(heap, vec[other].size_)
    /\ Throws(VectorBadAlloc(St, v), Threw("VectorCopy", "bad_alloc"))

CopyCtorThrowsOp(v, other, j) ==
    /\ ~crashed /\ v \in objects /\ ~vec[v].alive
    /\ Alive(other)
    /\ j < vec[other].size_
    /\ CanAllocate(heap, vec[other].size_)
    /\ Throws(VectorCopyThrows(St, v, other, j), Threw("VectorCopy", "T"))

CopyAssignBadAllocOp(v, rhs) ==
    /\ Alive(v) /\ Alive(rhs) /\ v # rhs
    /\ vec[rhs].size_ > vec[v].data_.capacity_
    /\ ~CanAllocate(heap, vec[rhs].size_)
    /\ Throws(CopyAssignBadAlloc(St, v, rhs), Threw("CopyAssign", "bad_alloc"))

CopyAssignThrowsOp(v, rhs, j) ==
    /\ Alive(v) /\ Alive(rhs) /\ v # rhs
    /\ j < vec[rhs].size_
    /\ vec[rhs].size_ > vec[v].data_.capacity_ => CanAllocate(heap, vec[rhs].size_)
    /\ Throws(CopyAssignThrows(St, v, rhs, j), Threw("CopyAssign", "T"))

ReserveBadAllocOp(v, new_capacity) ==
    /\ Alive(v)
    /\ new_capacity > vec[v].data_.capacity_
    /\ ~CanAllocate(heap, new_capacity)
    /\ Throws(ReserveBadAlloc(St, v, new_capacity), Threw("Reserve", "bad_alloc"))

ReserveThrowsOp(v, new_capacity, j) ==
    /\ Alive(v) /\ ~relocByMove
    /\ new_capacity > vec[v].data_.capacity_
    /\ j < vec[v].size_
    /\ CanAllocate(heap, new_capacity)
    /\ Throws(ReserveThrows(St, v, new_capacity, j), Threw("Reserve", "T"))

ResizeBadAllocOp(v, new_size) ==
    /\ Alive(v)
    /\ new_size > vec[v].data_.capacity_
    /\ ~CanAllocate(heap, new_size)
    /\ Throws(ResizeBadAlloc(St, v, new_size), Threw("Resize", "bad_alloc"))

ResizeThrowsOp(v, new_size, j) ==
    /\ Alive(v) /\ ~relocByMove
    /\ new_size > vec[v].data_.capacity_
    /\ j < vec[v].size_
    /\ CanAllocate(heap, new_size)
    /\ Throws(ResizeThrows(St, v, new_size, j), Threw("Resize", "T"))

\* PushBack, EmplaceBack, Insert or Emplace on a full Vector, heap exhausted.
EmplaceBadAllocOp(v, pos_idx, value) ==
    /\ Alive(v)
    /\ pos_idx <= vec[v].size_
    /\ vec[v].size_ = vec[v].data_.capacity_
    /\ ~CanAllocate(heap, GrownCapacity(vec[v].size_))
    /\ Throws(EmplaceBadAlloc(St, v, pos_idx, value), Threw("Emplace", "bad_alloc"))

\* PushBack, EmplaceBack, Insert or Emplace on a full Vector relocating by
\* copy, a copy throwing in one segment or in both: the handlers swallow
\* the exception and Emplace returns; the destroy_n that follows runs over
\* elements a handler has destroyed already, which does nothing more or
\* brings the process down.
InsertSwallowsOp(v, pos_idx, value, j1, j2) ==
    /\ Alive(v) /\ ~relocByMove
    /\ pos_idx <= vec[v].size_
    /\ vec[v].size_ = vec[v].data_.capacity_
    /\ j1 = NoThrow \/ j1 < pos_idx
    /\ j2 = NoThrow \/ j2 < vec[v].size_ - pos_idx
    /\ j1 # NoThrow \/ j2 # NoThrow
    /\ CanAllocate(heap, GrownCapacity(vec[v].size_))
    /\ \/ LET R == InsertWithAllocSwallows(St, v, pos_idx, value, j1, j2)
          IN  Becomes(R, EmplaceCall(R, v, pos_idx))
       \/ Crashes(Call("Emplace", NoIter))

\* The indices of the elements of v.
Indices(v) == 0..(vec[v].size_ - 1)

\* The calls that return: those whose allocations the heap can satisfy and
\* in which no copy of an element throws.
Next ==
    \/ \E v \in Vecs : DefaultCtor(v)
    \/ \E v \in Vecs, n \in 0..MaxCap : SizedCtor(v, n)
    \/ \E v \in Vecs : \E w \in Vecs \ {v} : CopyCtor(v, w)
    \/ \E v \in Vecs : \E w \in Vecs \ {v} : MoveCtor(v, w)
    \/ \E v \in Vecs : Dtor(v)
    \/ \E v \in Vecs, w \in Vecs : CopyAssignOp(v, w)
    \/ \E v \in Vecs, w \in Vecs : MoveAssignOp(v, w)
    \/ \E v \in Vecs, w \in Vecs : SwapOp(v, w)
    \/ \E v \in Vecs, n \in 0..MaxCap : ReserveOp(v, n)
    \/ \E v \in Vecs, n \in 0..MaxCap : ResizeOp(v, n)
    \/ \E v \in Vecs, x \in Value : PushBackOp(v, x)
    \/ \E v \in Vecs, p \in 0..HeapSlots, x \in Value : InsertOp(v, p, x)
    \/ \E v \in Vecs : \E p \in 0..vec[v].size_, i \in Indices(v) : InsertRefOp(v, p, i)
    \/ \E v \in Vecs : PopBackOp(v)
    \/ \E v \in Vecs, p \in 0..HeapSlots : EraseOp(v, p)
    \/ \E v \in Vecs, i \in 0..HeapSlots, x \in Value : WriteOp(v, i, x)

Spec == Init /\ [][Next]_vars

\* ---- a program with one Vector whose calls may also fail: operator new
\* on an exhausted heap, and the copy of an element during a relocation ----

InitThrow ==
    /\ objects = {"a"}
    /\ slots = HeapSlots
    /\ vec = [v \in Vecs |-> IF v \in objects THEN VectorDefault ELSE VectorDead]
    /\ heap = NoHeap
    /\ leaked = NoLeak
    /\ relocByMove \in BOOLEAN
    /\ crashed = FALSE
    /\ last = Call("Vector", NoIter)

NextThrow ==
    \/ \E v \in Vecs : DefaultCtor(v)
    \/ \E v \in Vecs, n \in 0..MaxCap : SizedCtor(v, n)
    \/ \E v \in Vecs : Dtor(v)
    \/ \E v \in Vecs, n \in 0..MaxCap : ReserveOp(v, n)
    \/ \E v \in Vecs, n \in 0..MaxCap : ResizeOp(v, n)
    \/ \E v \in Vecs, x \in Value : PushBackOp(v, x)
    \/ \E v \in Vecs, p \in 0..HeapSlots, x \in Value : InsertOp(v, p, x)
    \/ \E v \in Vecs : PopBackOp(v)
    \/ \E v \in Vecs, p \in 0..HeapSlots : EraseOp(v, p)
    \/ \E v \in Vecs, i \in 0..HeapSlots, x \in Value : WriteOp(v, i, x)
    \/ \E v \in Vecs, n \in 0..MaxCap : ReserveBadAllocOp(v, n)
    \/ \E v \in Vecs, n \in 0..MaxCap : \E j \in Indices(v) : ReserveThrowsOp(v, n, j)
    \/ \E v \in Vecs, n \in 0..MaxCap : ResizeBadAllocOp(v, n)
    \/ \E v \in Vecs, n \in 0..MaxCap : \E j \in Indices(v) : ResizeThrowsOp(v, n, j)
    \/ \E v \in Vecs, p \in 0..HeapSlots, x \in Value : EmplaceBadAllocOp(v, p, x)
    \/ \E v \in Vecs, x \in Value : \E p \in 0..vec[v].size_ :
          \E j1 \in (0..(p - 1)) \cup {NoThrow}, j2 \in (0..(vec[v].size_ - p - 1)) \cup {NoThrow} :
             InsertSwallowsOp(v, p, x, j1, j2)

SpecThrow == InitThrow /\ [][NextThrow]_vars

\* ---- a program that fills two Vectors and copies one to the other, by
\* construction or by assignment, on a heap with room for two elements in
\* each; the copy of an element may throw ----

InitAssign ==
    /\ objects = Vecs
    /\ slots = AssignSlots
    /\ vec = [v \in Vecs |-> VectorDefault]
    /\ heap = NoHeap
    /\ leaked = NoLeak
    /\ relocByMove \in BOOLEAN
    /\ crashed = FALSE
    /\ last = Call("Vector", NoIter)

NextAssign ==
    \/ \E v \in Vecs, n \in 0..MaxCap : ReserveOp(v, n)
    \/ \E v \in Vecs, x \in Value : PushBackOp(v, x)
    \/ \E v \in Vecs : PopBackOp(v)
    \/ \E v \in Vecs : Dtor(v)
    \/ \E v \in Vecs : \E w \in Vecs \ {v} : CopyCtor(v, w)
    \/ \E v \in Vecs : \E w \in Vecs \ {v} : CopyCtorBadAllocOp(v, w)
    \/ \E v \in Vecs : \E w \in Vecs \ {v} : \E j \in Indices(w) : CopyCtorThrowsOp(v, w, j)
    \/ \E v \in Vecs, w \in Vecs : CopyAssignOp(v, w)
    \/ \E v \in Vecs, w \in Vecs : CopyAssignBadAllocOp(v, w)
    \/ \E v \in Vecs, w \in Vecs : \E j \in Indices(w) : CopyAssignThrowsOp(v, w, j)

SpecAssign == InitAssign /\ [][NextAssign]_vars

\* ------------------------------------------------------------------------
\* Properties
\* ------------------------------------------------------------------------

\* The state a step leaves.
StN == [vec |-> vec', heap |-> heap']

\* Slot content x is a constructed element (a value, or moved from).
Live(x) == x # Raw

Positions == 0..HeapSlots

\* C1: in every reachable state, for every Vector, exactly the slots
\* [0, size) of its buffer hold constructed elements and every slot in
\* [size, capacity) is uninitialized.
C1_LiveExactlyBelowSize ==
    \A v \in Vecs : vec[v].alive =>
        \A i \in DOMAIN Mem(St, v) : (i < vec[v].size_) <=> Live(Mem(St, v)[i])

\* C2: in every reachable state Size() <= Capacity(), and capacity_ is
\* the number of slots of the buffer held.
C2_SizeWithinCapacity ==
    \A v \in Vecs : vec[v].alive =>
        /\ vec[v].size_ <= vec[v].data_.capacity_
        /\ DOMAIN Mem(St, v) = 0..(vec[v].data_.capacity_ - 1)

\* C2 witness: a Vector of three elements with room to spare, right after
\* an Emplace that reallocated.
C2_Witness ==
    /\ last.op = "Emplace" /\ last.alloc
    /\ \E v \in Vecs : vec[v].alive /\ vec[v].size_ >= 3
                       /\ vec[v].size_ < vec[v].data_.capacity_

\* C3: Insert / Emplace at pos with value x returns the address of index
\* pos, leaves x at index pos, leaves the elements before pos where they
\* were, moves the elements from pos on one index up in the same order,
\* and increases size by exactly 1, on both paths.
C3_EmplaceShiftsRight ==
    [][last'.op = "Emplace" => \A v \in Vecs, p \in Positions, x \in Value :
         InsertOp(v, p, x) =>
            LET pre  == Mem(St, v)
                post == Mem(StN, v)
                size == Size(St, v)
            IN  /\ last'.ret = Iter(Buffer(StN, v), p)
                /\ Size(StN, v) = size + 1
                /\ post[p] = x
                /\ \A i \in 0..(p - 1) : Live(pre[i]) => post[i] = pre[i]
                /\ \A i \in p..(size - 1) : Live(pre[i]) => post[i + 1] = pre[i]]_vars

\* C3 witness: an Emplace that reallocated and put the new element
\* between two others.
C3_Witness ==
    /\ last.op = "Emplace" /\ last.alloc
    /\ last.ret.idx = 1
    /\ \E v \in Vecs : /\ vec[v].alive /\ vec[v].size_ = 3
                       /\ last.ret.buf = vec[v].data_.buffer_
                       /\ Mem(St, v)[0] = 1 /\ Mem(St, v)[1] = 0 /\ Mem(St, v)[2] = 1

\* C4: Erase at pos < size removes exactly that element: the elements
\* before pos stay, those after pos move one index down in the same order,
\* size decreases by 1, capacity and buffer stay, and the iterator
\* returned is that of index pos.
C4_EraseShiftsLeft ==
    [][last'.op = "Erase" => \A v \in Vecs, p \in Positions :
         EraseOp(v, p) =>
            LET pre  == Mem(St, v)
                post == Mem(StN, v)
                size == Size(St, v)
            IN  /\ last'.ret = Iter(Buffer(St, v), p)
                /\ Size(StN, v) = size - 1
                /\ vec'[v].data_ = vec[v].data_
                /\ \A i \in 0..(p - 1) : Live(pre[i]) => post[i] = pre[i]
                /\ \A i \in (p + 1)..(size - 1) : Live(pre[i]) => post[i - 1] = pre[i]
                /\ post[size - 1] = Raw]_vars

\* C4 witness: an Erase at index 1 that left an element on either side.
C4_Witness ==
    /\ last.op = "Erase" /\ last.ret.idx = 1
    /\ \E v \in Vecs : /\ vec[v].alive /\ vec[v].size_ = 2
                       /\ last.ret.buf = vec[v].data_.buffer_
                       /\ Mem(St, v)[0] = 1 /\ Mem(St, v)[1] = 0

Sizes == 0..MaxCap

\* C5: Resize(n) with n above the capacity keeps the elements at
\* [0, size), value-constructs exactly the slots [size, n) and ends with
\* Size() == n.
C5_ResizeBeyondCapacity ==
    [][last'.op = "Resize" => \A v \in Vecs, n \in Sizes :
         (ResizeOp(v, n) /\ n > Capacity(St, v)) =>
            LET pre  == Mem(St, v)
                post == Mem(StN, v)
                size == Size(St, v)
            IN  /\ Size(StN, v) = n
                /\ \A i \in 0..(size - 1) : Live(pre[i]) => post[i] = pre[i]
                /\ \A i \in size..(n - 1) : post[i] = Default]_vars

\* C6: Resize(n) with n <= size destroys exactly the elements at [n, size),
\* keeps the elements at [0, n), keeps the capacity and the buffer, and
\* ends with Size() == n.
C6_ResizeShrinks ==
    [][last'.op = "Resize" => \A v \in Vecs, n \in Sizes :
         (ResizeOp(v, n) /\ n <= Size(St, v)) =>
            LET pre  == Mem(St, v)
                post == Mem(StN, v)
                size == Size(St, v)
            IN  /\ Size(StN, v) = n
                /\ vec'[v].data_ = vec[v].data_
                /\ \A i \in DOMAIN pre :
                      post[i] = IF n <= i /\ i < size THEN Raw ELSE pre[i]]_vars

\* C6 witness: a Resize that allocated nothing left one element in a
\* buffer of three slots, the other two uninitialized.
C6_Witness ==
    /\ last.op = "Resize" /\ ~last.alloc
    /\ \E v \in Vecs : /\ vec[v].alive /\ vec[v].size_ = 1
                       /\ vec[v].data_.capacity_ = 3
                       /\ Mem(St, v)[0] = 1
                       /\ Mem(St, v)[1] = Raw /\ Mem(St, v)[2] = Raw

Max(x, y) == IF x >= y THEN x ELSE y

\* C7: Reserve(k) keeps size and every element at [0, size) and ends with
\* Capacity() == max(old capacity, k).
C7_ReserveKeepsElements ==
    [][last'.op = "Reserve" => \A v \in Vecs, k \in Sizes :
         ReserveOp(v, k) =>
            LET pre  == Mem(St, v)
                post == Mem(StN, v)
            IN  /\ Size(StN, v) = Size(St, v)
                /\ Capacity(StN, v) = Max(Capacity(St, v), k)
                /\ \A i \in 0..(Size(St, v) - 1) :
                      Live(pre[i]) => post[i] = pre[i]]_vars

\* C7 witness: a Reserve that allocated a buffer of three slots for a
\* Vector holding two different elements.
C7_Witness ==
    /\ last.op = "Reserve" /\ last.alloc
    /\ \E v \in Vecs : /\ vec[v].alive /\ vec[v].size_ = 2
                       /\ vec[v].data_.capacity_ = 3
                       /\ Mem(St, v)[0] = 1 /\ Mem(St, v)[1] = 0

\* C8: an Emplace (PushBack, EmplaceBack, Insert) on a full Vector leaves
\* the capacity at max(1, 2 * old capacity); on a Vector with room it
\* leaves capacity and buffer as they were.
C8_GrowthDoubles ==
    [][last'.op = "Emplace" => \A v \in Vecs, p \in Positions, x \in Value :
         InsertOp(v, p, x) =>
            IF Size(St, v) = Capacity(St, v)
            THEN Capacity(StN, v) = Max(1, 2 * Capacity(St, v))
            ELSE vec'[v].data_ = vec[v].data_]_vars

\* C8 witness: an Emplace that reallocated left a capacity of four.
C8_Witness ==
    /\ last.op = "Emplace" /\ last.alloc
    /\ \E v \in Vecs : /\ vec[v].alive /\ vec[v].data_.capacity_ = 4
                       /\ last.ret.buf = vec[v].data_.buffer_

\* C9: PopBack on a non-empty Vector decreases size by one and keeps the
\* elements at [0, size - 1), the capacity and the buffer.
C9_PopBackKeepsPrefix ==
    [][last'.op = "PopBack" => \A v \in Vecs :
         PopBackOp(v) =>
            LET pre  == Mem(St, v)
                post == Mem(StN, v)
                size == Size(St, v)
            IN  /\ Size(StN, v) = size - 1
                /\ vec'[v].data_ = vec[v].data_
                /\ \A i \in 0..(size - 2) : Live(pre[i]) => post[i] = pre[i]]_vars

\* C9 witness: a PopBack left two different elements in place.
C9_Witness ==
    /\ last.op = "PopBack"
    /\ \E v \in Vecs : /\ vec[v].alive /\ vec[v].size_ = 2
                       /\ vec[v].data_.capacity_ = 4
                       /\ Mem(St, v)[0] = 0 /\ Mem(St, v)[1] = 1
                       /\ Mem(St, v)[2] = Raw

\* Vector w and its buffer are as they were before the step.
Untouched(w) ==
    /\ vec'[w] = vec[w]
    /\ Mem(StN, w) = Mem(St, w)

\* The step is a call on v alone that leaves every other Vector untouched.
Frame(v) == \A w \in Vecs \ {v} : Untouched(w)

\* C10: copy construction gives a Vector of other's size, of capacity
\* other.Size(), with an equal element at every index, in a buffer of its
\* own, and leaves other as it was; a mutation of one Vector (Emplace,
\* Erase, Resize, Reserve, PopBack, element write) that returns leaves the
\* other Vector's size, capacity and elements as they were.
C10_CopyIsEqualAndIndependent ==
    [][/\ last'.op = "VectorCopy" => \A v \in Vecs : \A other \in Vecs \ {v} :
            CopyCtor(v, other) =>
               /\ Size(StN, v) = Size(St, other)
               /\ Capacity(StN, v) = Size(St, other)
               /\ \A i \in 0..(Size(St, other) - 1) :
                     Mem(StN, v)[i] = Mem(St, other)[i]
               /\ Size(St, other) > 0 => Buffer(StN, v) # Buffer(StN, other)
               /\ Untouched(other)
       /\ last'.op = "Emplace" => \A v \in Vecs, p \in Positions, x \in Value :
            InsertOp(v, p, x) => Frame(v)
       /\ last'.op = "Erase" => \A v \in Vecs, p \in Positions :
            EraseOp(v, p) => Frame(v)
       /\ (last'.op = "Resize" /\ ~crashed') => \A v \in Vecs, n \in Sizes :
            ResizeOp(v, n) => Frame(v)
       /\ last'.op = "Reserve" => \A v \in Vecs, n \in Sizes :
            ReserveOp(v, n) => Frame(v)
       /\ last'.op = "PopBack" => \A v \in Vecs :
            PopBackOp(v) => Frame(v)
       /\ last'.op = "Write" => \A v \in Vecs, i \in Positions, x \in Value :
            WriteOp(v, i, x) => Frame(v)]_vars

\* C10 witness: a copy of one element, of capacity one, of a Vector with
\* a capacity of two.
C10_Witness ==
    /\ last.op = "VectorCopy"
    /\ \E v \in Vecs : \E w \in Vecs \ {v} :
          /\ vec[v].alive /\ vec[w].alive
          /\ vec[v].size_ = 1 /\ vec[v].data_.capacity_ = 1
          /\ vec[w].size_ = 1 /\ vec[w].data_.capacity_ = 2
          /\ Mem(St, v)[0] = 1 /\ Mem(St, w)[0] = 1

\* C11: a copy assignment v = rhs (v and rhs distinct) that returns gives
\* v the size of rhs and an equal element at every index and leaves rhs as
\* it was; with rhs.size <= v's capacity it keeps v's capacity and buffer,
\* otherwise v's capacity becomes rhs.size.
C11_CopyAssignCopies ==
    [][last'.op = "CopyAssign" => \A v \in Vecs : \A rhs \in Vecs \ {v} :
         CopyAssignOp(v, rhs) =>
            LET rsize == Size(St, rhs)
            IN  /\ Size(StN, v) = rsize
                /\ \A i \in 0..(rsize - 1) : Mem(StN, v)[i] = Mem(St, rhs)[i]
                /\ Untouched(rhs)
                /\ IF rsize <= Capacity(St, v)
                   THEN vec'[v].data_ = vec[v].data_
                   ELSE Capacity(StN, v) = rsize]_vars

\* C11 witness: a copy assignment that allocated nothing left one element,
\* equal to that of the other Vector, in a buffer of two slots.
C11_Witness ==
    /\ last.op = "CopyAssign" /\ ~last.alloc
    /\ \E v \in Vecs : \E rhs \in Vecs \ {v} :
          /\ vec[v].alive /\ vec[rhs].alive
          /\ vec[v].size_ = 1 /\ vec[v].data_.capacity_ = 2
          /\ vec[rhs].size_ = 1
          /\ Mem(St, v)[0] = 1 /\ Mem(St, rhs)[0] = 1 /\ Mem(St, v)[1] = Raw

\* Every buffer the step leaves allocated holds what it held before.
NoElementTouched == \A b \in DOMAIN heap' : b \in DOMAIN heap /\ heap'[b] = heap[b]

\* The step hands s's data_ and size_ over to v and leaves s empty.
HandedOver(v, s) ==
    /\ Size(StN, s) = 0 /\ Capacity(StN, s) = 0
    /\ Size(StN, v) = Size(St, s)
    /\ vec'[v].data_ = vec[s].data_
    /\ Mem(StN, v) = Mem(St, s)
    /\ NoElementTouched

\* C12: move construction and move assignment from a distinct Vector s
\* leave s with size 0 and capacity 0, give the destination s's size,
\* capacity, buffer and elements, and construct, copy or assign no element.
C12_MoveHandsOver ==
    [][/\ last'.op = "VectorMove" => \A v \in Vecs : \A s \in Vecs \ {v} :
            MoveCtor(v, s) => HandedOver(v, s)
       /\ last'.op = "MoveAssign" => \A v \in Vecs : \A s \in Vecs \ {v} :
            MoveAssignOp(v, s) => HandedOver(v, s)]_vars

\* C12 witness: a move assignment into a Vector that held an element left
\* it with the two elements of the source, and the source empty.
C12_Witness ==
    /\ last.op = "MoveAssign" /\ leaked.elements = 1
    /\ \E v \in Vecs : \E s \in Vecs \ {v} :
          /\ vec[v].alive /\ vec[s].alive
          /\ vec[v].size_ = 2 /\ vec[v].data_.capacity_ = 2
          /\ Mem(St, v)[0] = 1 /\ Mem(St, v)[1] = 0
          /\ vec[s].size_ = 0 /\ vec[s].data_ = RawMemoryEmpty

\* The positions a relocation can fail at, and none.
FailPoints == 0..NoThrow

\* C13: when an Emplace (Insert, PushBack, EmplaceBack) on a full Vector
\* fails to copy an element of the segment before or after the position
\* into the new buffer, the call is left by that exception and size is not
\* incremented.
C13_RelocationFailurePropagates ==
    [][last'.op = "Emplace" =>
         \A v \in Vecs, p \in Positions, x \in Value, j1 \in FailPoints, j2 \in FailPoints :
            InsertSwallowsOp(v, p, x, j1, j2) =>
               /\ last'.thrown = "T"
               /\ Size(StN, v) = Size(St, v)]_vars

\* C14: when operator new fails in Reserve, in a Resize above the capacity
\* or in an Emplace (PushBack, EmplaceBack, Insert) on a full Vector, the
\* call is left by std::bad_alloc and the Vector's buffer, capacity, size
\* and elements are as before the call.
C14_BadAllocChangesNothing ==
    [][last'.thrown = "bad_alloc" => \A v \in Vecs :
         (\/ \E n \in Sizes : ReserveBadAllocOp(v, n) \/ ResizeBadAllocOp(v, n)
          \/ \E p \in Positions, x \in Value : EmplaceBadAllocOp(v, p, x))
         => /\ vec'[v] = vec[v]
            /\ Mem(StN, v) = Mem(St, v)
            /\ heap' = heap]_vars

\* C14 witness: an Emplace on a full Vector of four elements found the
\* heap exhausted.
C14_Witness ==
    /\ last.op = "Emplace" /\ last.thrown = "bad_alloc"
    /\ objects = {"a"}
    /\ vec["a"].alive /\ vec["a"].size_ = 4 /\ vec["a"].data_.capacity_ = 4
    /\ Mem(St, "a")[0] = 1 /\ Mem(St, "a")[3] = 0

\* C15: when Reserve(k), k above the capacity, relocates by copy and the
\* copy of an element throws, the copies made are destroyed, the new
\* buffer is released, the call is left by that exception, and the
\* Vector's buffer, capacity, size and elements are as before the call.
C15_ReserveCopyFailureRollsBack ==
    [][(last'.op = "Reserve" /\ last'.thrown = "T") =>
         \A v \in Vecs, k \in Sizes, j \in Positions :
            ReserveThrowsOp(v, k, j) =>
               /\ vec'[v] = vec[v]
               /\ Mem(StN, v) = Mem(St, v)
               /\ heap' = heap]_vars

\* C15 witness: a Reserve on a Vector of two different elements was left
\* by the exception of a copy.
C15_Witness ==
    /\ last.op = "Reserve" /\ last.thrown = "T" /\ ~relocByMove
    /\ objects = {"a"}
    /\ vec["a"].alive /\ vec["a"].size_ = 2 /\ vec["a"].data_.capacity_ = 2
    /\ Mem(St, "a")[0] = 1 /\ Mem(St, "a")[1] = 0

\* C16: when the copy of an element throws during a copy assignment
\* v = rhs, v's size, capacity and elements are as before the call, on the
\* copy-and-swap path and on the in-place path.
C16_CopyAssignFailureChangesNothing ==
    [][(last'.op = "CopyAssign" /\ last'.thrown = "T") =>
         \A v \in Vecs, rhs \in Vecs, j \in Positions :
            CopyAssignThrowsOp(v, rhs, j) =>
               /\ vec'[v] = vec[v]
               /\ Mem(StN, v) = Mem(St, v)]_vars

\* The calls C17 is about.
GrowingCalls ==
    {"Reserve", "Resize", "Emplace", "EmplaceRef", "PopBack", "Erase", "CopyAssign"}

\* C17: a Reserve, Resize, PushBack, EmplaceBack, PopBack, Insert, Emplace,
\* Erase or copy assignment into a Vector never leaves the capacity of a
\* Vector below what it was.
C17_CapacityNeverDecreases ==
    [][(last'.op \in GrowingCalls /\ ~crashed') =>
         \A v \in Vecs : Capacity(StN, v) >= Capacity(St, v)]_vars

\* C17 witness: a PopBack emptied a Vector that keeps its four slots.
C17_Witness ==
    /\ last.op = "PopBack"
    /\ \E v \in Vecs : /\ vec[v].alive /\ vec[v].size_ = 0
                       /\ vec[v].data_.capacity_ = 4
                       /\ Mem(St, v)[0] = Raw

\* C18: in every reachable state every buffer allocated and not released
\* is owned by exactly one RawMemory and every element constructed and not
\* destroyed lies in [0, size) of its Vector; so no memory is out of
\* reach, and nothing stays allocated once every Vector is destroyed.
C18_OwnedExactlyOnce ==
    /\ leaked = NoLeak
    /\ \A b \in DOMAIN heap :
          Cardinality({v \in Vecs : vec[v].alive /\ vec[v].data_.buffer_ = b}) = 1
    /\ \A v \in Vecs : vec[v].alive =>
          \A i \in DOMAIN Mem(St, v) : Live(Mem(St, v)[i]) => i < vec[v].size_

\* C19: Resize(n) with size < n <= capacity destroys nothing, keeps the
\* elements at [0, size), value-constructs exactly the slots [size, n),
\* keeps the capacity and the buffer, and ends with Size() == n.
C19_ResizeWithinCapacity ==
    [][last'.op = "Resize" => \A v \in Vecs, n \in Sizes :
         (ResizeOp(v, n) /\ Size(St, v) < n /\ n <= Capacity(St, v)) =>
            LET pre  == Mem(St, v)
                post == Mem(StN, v)
                size == Size(St, v)
            IN  /\ ~crashed'
                /\ Size(StN, v) = n
                /\ vec'[v].data_ = vec[v].data_
                /\ \A i \in DOMAIN pre :
                      post[i] = IF size <= i /\ i < n THEN Default ELSE pre[i]]_vars

\* C20: when the value passed to Insert, PushBack, Emplace or EmplaceBack
\* is a reference to the element v[i] of the same Vector, the element
\* inserted equals the value v[i] had before the call, for every i and
\* every position, in place and reallocating.
C20_SelfReferenceInsert ==
    [][last'.op = "EmplaceRef" => \A v \in Vecs, p \in Positions, i \in Positions :
         InsertRefOp(v, p, i) =>
            /\ Size(StN, v) = Size(St, v) + 1
            /\ Mem(StN, v)[p] = Mem(St, v)[i]]_vars

\* C20 witness: an Insert in place at the front of a reference to the
\* second of two elements, which the call shifted to the third slot.
C20_Witness ==
    /\ last.op = "EmplaceRef" /\ ~last.alloc /\ last.ret.idx = 0
    /\ \E v \in Vecs : /\ vec[v].alive /\ vec[v].size_ = 3
                       /\ last.ret.buf = vec[v].data_.buffer_
                       /\ Mem(St, v)[0] = 0 /\ Mem(St, v)[1] = 1 /\ Mem(St, v)[2] = 0

====
